---- MODULE Spec2Model ----
(***************************************************************************)
(* Model of the simple aggregating metrics processor (package              *)
(* simpleprocessor): ConsumeMetrics accumulates sum data points per        *)
(* work.type under p.mu, flushLoop flushes on every ticker tick, flush     *)
(* writes the checkpoint and hands one cumulative batch to the next        *)
(* consumer, Start loads the checkpoint and Shutdown saves it.             *)
(***************************************************************************)
EXTENDS Integers, Sequences, FiniteSets, TLC

(* ----------------------------- bounds ---------------------------------- *)
\* ConsumeMetrics calls in one behaviour
MaxIngests == 2
\* ticker periods that pass in one behaviour
MaxTicks == 2
\* process restarts in one behaviour
MaxRestarts == 1
\* ConsumeMetrics calls, ticker periods and restarts in one behaviour, together
MaxEvents == 4
\* downstream sends of one process that sinkCalls counts; later sends leave
\* the counter at this value
MaxSends == 3

(* ------------------------- program constants --------------------------- *)
\* time.NewTicker(5 * time.Second)
FlushInterval == 5
\* the clock reading at which the first process is constructed
StartOfTime == 1
\* pdata's value of a start timestamp that was never set on a data point
UnsetTimestamp == 0

Threads == {"t1", "t2"}
FlushSlots == {"f1", "f2"}
Free == "free"

\* the strings that occur as attribute values, in byte order (the order in
\* which encoding/json writes map keys)
SortedStrings == <<"", "auto", "id1", "id2", "id3", "id4", "id5", "manual">>
Strings == {SortedStrings[i] : i \in 1..Len(SortedStrings)}

\* One data point of an incoming batch, flattened from
\* ResourceMetrics/ScopeMetrics/Metrics/DataPoints: the type of the metric
\* that holds it, whether it has a work.type attribute, that attribute, its
\* work.id attribute, and its integer value.
Point(mt, has, wt, id, v) ==
    [mtype |-> mt, hasType |-> has, workType |-> wt, workId |-> id, val |-> v]

P1 == Point("sum",   TRUE,  "manual", "id1", 1)
P2 == Point("sum",   TRUE,  "manual", "id2", 2)
P3 == Point("sum",   TRUE,  "auto",   "id3", -1)
\* a data point of a Sum metric without the work.type attribute
P4 == Point("sum",   FALSE, "",       "id4", 2)
\* a data point of a metric that is not a Sum
P5 == Point("gauge", TRUE,  "manual", "id5", 2)

\* the batches the receivers hand to ConsumeMetrics
Batches == { <<P1>>, <<P1, P2>>, <<P4, P3>>, <<P3, P5>> }

(* --------------------------- map helpers ------------------------------- *)
\* A Go map[string]int64: isNil tells a nil map from an empty one, m is the
\* function from the keys present to their values.
EmptyFn == [k \in {} |-> 0]
EmptyMap == [isNil |-> FALSE, m |-> EmptyFn]
NilMap == [isNil |-> TRUE, m |-> EmptyFn]

MapLen(a) == Cardinality(DOMAIN a.m)
\* reading a missing key of a Go map yields the zero value
Get(a, k) == IF k \in DOMAIN a.m THEN a.m[k] ELSE 0
Put(f, k, v) == [x \in (DOMAIN f) \cup {k} |-> IF x = k THEN v ELSE f[x]]


(* ------------------------ checkpoint encoding -------------------------- *)
\* A checkpoint as stored: kind "absent" (no file, or Get returned nil),
\* "null" (the JSON text null), "invalid" (text that is not JSON or whose top
\* level is not an object, e.g. a truncated file) or "object", whose members
\* are the key/value pairs in the order of the text.  A member whose value is
\* not an integer that fits int64 has isInt = FALSE.
Doc(kind, members) == [kind |-> kind, members |-> members]
Member(k, isInt, n) == [key |-> k, isInt |-> isInt, num |-> n]
Absent == Doc("absent", <<>>)
Invalid == Doc("invalid", <<>>)

RECURSIVE MembersFrom(_, _)
MembersFrom(f, i) ==
    IF i > Len(SortedStrings) THEN <<>>
    ELSE LET k == SortedStrings[i]
         IN  IF k \in DOMAIN f
             THEN <<Member(k, TRUE, f[k])>> \o MembersFrom(f, i + 1)
             ELSE MembersFrom(f, i + 1)

\* json.Marshal(p.aggregations): a nil map encodes as null, any other map as
\* an object with its keys sorted.
Marshal(a) ==
    IF a.isNil THEN Doc("null", <<>>) ELSE Doc("object", MembersFrom(a.m, 1))

RECURSIVE StoreMembers(_, _, _)
StoreMembers(f, members, i) ==
    IF i > Len(members) THEN f
    ELSE LET mem == members[i]
         IN  IF mem.isInt
             THEN StoreMembers(Put(f, mem.key, mem.num), members, i + 1)
             ELSE StoreMembers(Put(f, mem.key, 0), members, i + 1)

\* json.Unmarshal(data, &p.aggregations): text that is not valid JSON is
\* rejected before anything is stored; null sets the map to nil; an object is
\* stored member by member into the existing map (allocated when nil); the
\* value of a member of the wrong type is not decoded, its key is stored
\* with the zero value, and the error is reported after all members were
\* stored.
Unmarshal(doc, a) ==
    CASE doc.kind = "null"   -> [agg |-> NilMap, err |-> FALSE]
      [] doc.kind = "object" ->
            [agg |-> [isNil |-> FALSE, m |-> StoreMembers(a.m, doc.members, 1)],
             err |-> \E i \in 1..Len(doc.members) : ~doc.members[i].isInt]
      [] OTHER               -> [agg |-> a, err |-> TRUE]

\* what the checkpoint store may hold when the first process starts
ValidDoc == Doc("object", <<Member("manual", TRUE, 2)>>)
InitialDocs ==
    { Absent,
      Invalid,
      Doc("null", <<>>),
      ValidDoc,
      Doc("object", <<Member("auto", TRUE, 1), Member("manual", FALSE, 0)>>) }

(* --------------------------- configuration ----------------------------- *)
\* Config.CheckpointFile is set or empty; Config.StorageID is nil ("nil") or
\* names an extension that the host has and that hands out a client ("ok"),
\* that the host lacks ("missing"), that is not a storage extension
\* ("notStorage") or whose GetClient fails ("clientErr").
Cfg(file, storage) == [checkpointFile |-> file, storageID |-> storage]
Configs ==
    { Cfg(FALSE, "nil"), Cfg(TRUE, "nil"), Cfg(FALSE, "ok"),
      Cfg(TRUE, "missing"), Cfg(FALSE, "notStorage"), Cfg(FALSE, "clientErr") }

(* ------------------------------ state ---------------------------------- *)
VARIABLES
    config,         \* the Config the factory passes to newProcessor
    store,          \* the checkpoint file, or the "aggregations" key of the storage
    hostPc,         \* where the host is in the component's life cycle
    storageClient,  \* p.storageClient: "nil", "open" or "closed"
    aggregations,   \* p.aggregations
    done,           \* p.done is closed
    mu,             \* holder of p.mu, or Free
    ingestPc,       \* per caller thread: position in ConsumeMetrics
    ingestBatch,    \* per caller thread: the md of its call
    ingestIdx,      \* per caller thread: index of the next data point
    ingestResult,   \* per caller thread: what its last call returned
    ingestBefore,   \* per caller thread: p.aggregations when it took the lock
    loopPc,         \* position of the flushLoop goroutine
    tickPending,    \* ticker.C holds a tick
    flushPc,        \* per flush activation: position in flush
    md,             \* per flush activation: the batch it built
    saved,          \* per flush activation: what its saveStateLocked did
    now,            \* the wall clock
    created,        \* per group key: the clock when its map entry was created
    base,           \* p.aggregations as loadState left it
    applied,        \* per key: sum over the completed ConsumeMetrics calls
    persisted,      \* the state that the stored checkpoint was written from
    reloaded,       \* the persisted state that this run's loadState read back
    sinkCalls,      \* number of next.ConsumeMetrics calls of this run, up to MaxSends
    lastFailed,     \* the batch of the last send, when that send failed
    nIngests,       \* ConsumeMetrics calls so far
    nTicks,         \* ticker periods passed
    nRestarts,      \* restarts so far
    sdWrite,        \* how the checkpoint write of this run's Shutdown ended, "no" before it
    cbConfig,       \* the Config that createExtension receives
    cb,             \* the circuit breaker: state, generation, counts, expiry
    cbNow,          \* the clock the breaker reads
    callPc,         \* per caller of Execute: idle, or inside its unit of work
    callGen,        \* per caller: the generation its beforeRequest returned
    callResult,     \* per caller: what its last Execute returned
    hoAdmitted,     \* calls admitted since the breaker last became half-open
    openedAt,       \* the clock when the breaker last became open
    winFails,       \* failed calls in a row that began and ended in this closed window
    runFails,       \* failed calls in a row since the breaker last became closed
    closedGen,      \* the generation in which the breaker last became closed
    callGuard,      \* per caller: the call guard its call goes through
    callOutcome,    \* per caller: what the wrapped transport returned to its call
    callRet,        \* per caller: what the call guard returned to it
    stream,         \* per caller: the client stream it holds
    hoOk,           \* successful calls in a row that ended while the breaker was half-open
    hoSucc,         \* successes in a row of calls admitted in this half-open period
    nCalls,         \* Execute calls so far
    nCbTicks        \* clock steps of the breaker's clock so far

procVars == <<hostPc, storageClient, aggregations, done, mu, loopPc, tickPending>>
ingestVars == <<ingestPc, ingestBatch, ingestIdx, ingestResult, ingestBefore>>
flushVars == <<flushPc, md, saved>>
sinkVars == <<sinkCalls, lastFailed>>
ghostVars == <<created, base, applied, reloaded>>
envVars == <<config, now, nTicks, nRestarts, nIngests>>
aggVars == <<procVars, ingestVars, flushVars, sinkVars, ghostVars, envVars, store, persisted,
             sdWrite>>
guardVars == <<callGuard, callOutcome, callRet, stream>>
cbVars == <<cbConfig, cb, cbNow, callPc, callGen, callResult, hoAdmitted, openedAt,
            winFails, runFails, closedGen, hoOk, hoSucc, nCalls, nCbTicks, guardVars>>
vars == <<aggVars, cbVars>>

(* --------------------------- circuit breaker --------------------------- *)
\* The breaker the extension builds is gobreaker.CircuitBreaker (package
\* github.com/sony/gobreaker/v2), whose code is not part of the repository's
\* sources: its state machine is modelled from the specification of the
\* Circuit Breaker Core, its settings from createExtension.

\* Execute calls in one behaviour
MaxCalls == 8
\* steps of the breaker's clock in one behaviour
MaxCbTicks == 4
\* seconds that one step of the breaker's clock takes
ClockStep == 30

\* settings.MaxRequests = 1
DefaultMaxRequests == 1
\* settings.Interval = 60 * time.Second
DefaultInterval == 60
\* settings.Timeout = 60 * time.Second
DefaultTimeout == 60
\* counts.ConsecutiveFailures > 5
DefaultTripAfter == 5

\* the goroutines that call Execute concurrently
Callers == {"c1", "c2"}

\* the zero time.Time: no expiry
ZeroTime == 0

\* Config: max_requests, interval and timeout (0 when not set), and whether
\* the embedding program has set a ReadyToTrip of its own ("custom": trip at
\* more than one consecutive failure) or not ("nil")
CbConfig(maxRequests, interval, timeout, readyToTrip) ==
    [maxRequests |-> maxRequests, interval |-> interval, timeout |-> timeout,
     readyToTrip |-> readyToTrip]
CbConfigs ==
    { CbConfig(m, 0, t, r) : m \in {0, 2}, t \in {0, ClockStep}, r \in {"nil", "custom"} }

\* Faulty variant of Settings: max_requests is passed on as it is
SettingsNoDefault(cfg) ==
    [maxRequests |-> cfg.maxRequests,
     interval    |-> IF cfg.interval > 0 THEN cfg.interval ELSE DefaultInterval,
     timeout     |-> IF cfg.timeout > 0 THEN cfg.timeout ELSE DefaultTimeout,
     readyToTrip |-> cfg.readyToTrip]

\* Faulty variant of Settings: timeout is passed on as it is
SettingsNoTimeout(cfg) ==
    [maxRequests |-> IF cfg.maxRequests > 0 THEN cfg.maxRequests ELSE DefaultMaxRequests,
     interval    |-> IF cfg.interval > 0 THEN cfg.interval ELSE DefaultInterval,
     timeout     |-> cfg.timeout,
     readyToTrip |-> cfg.readyToTrip]

\* Faulty variant of Settings: max_requests is ignored, one request is allowed
SettingsMaxOne(cfg) ==
    [maxRequests |-> DefaultMaxRequests,
     interval    |-> IF cfg.interval > 0 THEN cfg.interval ELSE DefaultInterval,
     timeout     |-> IF cfg.timeout > 0 THEN cfg.timeout ELSE DefaultTimeout,
     readyToTrip |-> cfg.readyToTrip]

\* Faulty variant of Settings: timeout is ignored, the open state lasts 60 seconds
SettingsFixedTimeout(cfg) ==
    [maxRequests |-> IF cfg.maxRequests > 0 THEN cfg.maxRequests ELSE DefaultMaxRequests,
     interval    |-> IF cfg.interval > 0 THEN cfg.interval ELSE DefaultInterval,
     timeout     |-> DefaultTimeout,
     readyToTrip |-> cfg.readyToTrip]

\* createExtension: the gobreaker.Settings built from the Config
Settings(cfg) ==
    [maxRequests |-> IF cfg.maxRequests > 0 THEN cfg.maxRequests ELSE DefaultMaxRequests,
     interval    |-> IF cfg.interval > 0 THEN cfg.interval ELSE DefaultInterval,
     timeout     |-> IF cfg.timeout > 0 THEN cfg.timeout ELSE DefaultTimeout,
     readyToTrip |-> cfg.readyToTrip]

\* Faulty variant of DefaultReadyToTrip: trips at the fifth consecutive failure
DefaultReadyToTripAtFive(counts) == counts.consecutiveFailures >= DefaultTripAfter

\* createExtension's default ReadyToTrip
DefaultReadyToTrip(counts) == counts.consecutiveFailures > DefaultTripAfter

\* settings.ReadyToTrip
ReadyToTrip(st, counts) ==
    IF st.readyToTrip = "nil" THEN DefaultReadyToTrip(counts)
    ELSE counts.consecutiveFailures > 1

\* the breaker's counters, all cleared
NoCounts ==
    [requests |-> 0, totalSuccesses |-> 0, totalFailures |-> 0,
     consecutiveSuccesses |-> 0, consecutiveFailures |-> 0]

\* a new generation: the counters are cleared and the expiry is set for the
\* state: the end of the closed window, the end of the open timeout, none
\* while half-open
ToNewGeneration(b, st, t) ==
    [b EXCEPT !.generation = @ + 1,
              !.counts = NoCounts,
              !.expiry = CASE b.state = "closed" ->
                                IF st.interval = 0 THEN ZeroTime ELSE t + st.interval
                           [] b.state = "open" -> t + st.timeout
                           [] OTHER -> ZeroTime]

\* a state transition starts a new generation
SetState(b, st, state, t) ==
    IF b.state = state THEN b
    ELSE ToNewGeneration([b EXCEPT !.state = state], st, t)

\* the state as of time t: a closed window that has ended starts a new
\* generation, an open timeout that has ended makes the breaker half-open
CurrentState(b, st, t) ==
    CASE b.state = "closed" /\ b.expiry # ZeroTime /\ b.expiry < t ->
             ToNewGeneration(b, st, t)
      [] b.state = "open" /\ b.expiry < t -> SetState(b, st, "halfOpen", t)
      [] OTHER -> b

\* admission, atomic under the breaker's lock: rejected while open, and while
\* half-open once maxRequests calls were admitted; else counted as a request
BeforeRequest(b, st, t) ==
    LET c == CurrentState(b, st, t)
    IN  IF c.state = "open" THEN [cb |-> c, err |-> "ErrOpenState"]
        ELSE IF c.state = "halfOpen" /\ c.counts.requests >= st.maxRequests
        THEN [cb |-> c, err |-> "ErrTooManyRequests"]
        ELSE [cb |-> [c EXCEPT !.counts.requests = @ + 1], err |-> "nil"]

OnSuccess(b, st, t) ==
    LET c == [b EXCEPT !.counts.totalSuccesses = @ + 1,
                       !.counts.consecutiveSuccesses = @ + 1,
                       !.counts.consecutiveFailures = 0]
    IN  CASE b.state = "closed" -> c
          [] b.state = "halfOpen" ->
                 IF c.counts.consecutiveSuccesses >= st.maxRequests
                 THEN SetState(c, st, "closed", t) ELSE c
          [] OTHER -> b

OnFailure(b, st, t) ==
    LET c == [b EXCEPT !.counts.totalFailures = @ + 1,
                       !.counts.consecutiveFailures = @ + 1,
                       !.counts.consecutiveSuccesses = 0]
    IN  CASE b.state = "closed" ->
                 IF ReadyToTrip(st, c.counts) THEN SetState(c, st, "open", t) ELSE c
          [] b.state = "halfOpen" -> SetState(b, st, "open", t)
          [] OTHER -> b

\* the outcome of a call, atomic under the breaker's lock: ignored when the
\* generation has changed since the call was admitted
AfterRequest(b, st, before, success, t) ==
    LET c == CurrentState(b, st, t)
    IN  IF c.generation # before THEN c
        ELSE IF success THEN OnSuccess(c, st, t) ELSE OnFailure(c, st, t)

\* gobreaker.NewCircuitBreaker(settings): closed, in its first generation
NewCircuitBreaker(st, t) ==
    ToNewGeneration([state |-> "closed", generation |-> 0, counts |-> NoCounts,
                     expiry |-> ZeroTime], st, t)

(* ----------------------------- call guards ----------------------------- *)
\* calls through a call guard in one behaviour
MaxGuardCalls == 4

\* An error value: its dynamic type ("nil" for no error, "plain" for
\* errors.New and fmt.Errorf without %w, "wrapped" for fmt.Errorf with %w,
\* "status" for a gRPC status error), its gRPC code, its text, and the
\* sentinel errors that errors.Is finds in it.
Err(kind, code, msg, is) == [kind |-> kind, code |-> code, msg |-> msg, is |-> is]
NoErr == Err("nil", "", "", {})

\* gobreaker.ErrOpenState and gobreaker.ErrTooManyRequests
ErrOpenState == Err("plain", "", "circuit breaker is open", {"ErrOpenState"})
ErrTooManyRequests == Err("plain", "", "too many requests", {"ErrTooManyRequests"})
\* var ErrCircuitBreakerOpen = errors.New("circuit breaker is open")
ErrCircuitBreakerOpen ==
    Err("plain", "", "circuit breaker is open", {"ErrCircuitBreakerOpen"})

\* errors.Is(err, target) for a sentinel target
ErrorsIs(err, target) == target.is \subseteq err.is /\ err.kind # "nil"
\* fmt.Errorf("%w: %v", target, cause): wraps target, quotes cause
Wrapf(target, cause) ==
    Err("wrapped", "", target.msg \o ": " \o cause.msg, target.is)
\* status.Error(code, msg)
StatusError(code, msg) == Err("status", code, msg, {})
\* status.FromError(err) reports ok
IsStatus(err) == err.kind \in {"status", "nil"}

\* the error that Execute returns for a rejection
RejectionErr(name) ==
    IF name = "ErrOpenState" THEN ErrOpenState ELSE ErrTooManyRequests

\* A value: nil, an *http.Response with its status code and whether its body
\* was closed, or a grpc.ClientStream.
Val(kind, status, closed) == [kind |-> kind, status |-> status, closed |-> closed]
NoVal == Val("nil", 0, FALSE)
Resp(status) == Val("resp", status, FALSE)
ClientStream == Val("stream", 0, FALSE)

\* a pair (value, error) as a function returns it
Ret(val, err) == [val |-> val, err |-> err]
NoRet == Ret(NoVal, NoErr)

\* resp.StatusCode >= 500
ServerErrorStatus == 500
\* the status codes of the responses of the wrapped http.RoundTripper
StatusCodes == {200, 404, ServerErrorStatus - 1, ServerErrorStatus, 503}
\* the error of the wrapped http.RoundTripper
DialErr == Err("plain", "", "dial tcp: connection refused", {})
\* the errors of the wrapped gRPC invoker and streamer: status errors, whose
\* code and text come from the server or from the client connection (a
\* server that forwards the rejection of its own breaker sends that text)
GrpcErrors ==
    { StatusError("Canceled", "context canceled"),
      StatusError("NotFound", "not found"),
      StatusError("Unavailable", "connection refused"),
      StatusError("Unavailable", "circuit breaker is open: circuit breaker is open") }

\* the call guards, and "direct" for a caller of Execute that is none of them
Guards == {"http", "unary", "stream"}

\* what the wrapped transport of guard g can return
Outcomes(g) ==
    CASE g = "http"   -> {Ret(Resp(n), NoErr) : n \in StatusCodes} \cup {Ret(NoVal, DialErr)}
      [] g = "unary"  -> {Ret(NoVal, NoErr)} \cup {Ret(NoVal, e) : e \in GrpcErrors}
      [] g = "stream" -> {Ret(ClientStream, NoErr), Ret(NoVal, NoErr)}
                             \cup {Ret(NoVal, e) : e \in GrpcErrors}
      [] OTHER        -> {Ret(NoVal, NoErr), Ret(NoVal, DialErr)}
\* the errors that the wrapped transport of guard g can return
TransportErrors(g) == {o.err : o \in Outcomes(g)} \ {NoErr}

\* the codes that the interceptors test for
ServerCodes == {"Internal", "Unavailable", "DeadlineExceeded", "ResourceExhausted"}

\* Faulty variant of RoundTripWork: only an error of the transport is a failure
RoundTripWorkNoStatus(out) ==
    IF out.err # NoErr THEN Ret(NoVal, out.err) ELSE Ret(out.val, NoErr)

\* RoundTrip, the unit of work: the error of the transport, or an error for
\* a response with a status code of 500 or above, whose body it closes, or
\* the response
RoundTripWork(out) ==
    IF out.err # NoErr THEN Ret(NoVal, out.err)
    ELSE IF out.val.status >= ServerErrorStatus
    THEN Ret(NoVal, Err("plain", "", "HTTP " \o ToString(out.val.status), {}))
    ELSE Ret(out.val, NoErr)

\* RoundTrip, after Execute has returned (result, err)
RoundTrip(result, err) ==
    IF err # NoErr
    THEN IF ErrorsIs(err, ErrOpenState) \/ ErrorsIs(err, ErrTooManyRequests)
         THEN Ret(NoVal, Wrapf(ErrCircuitBreakerOpen, err))
         ELSE Ret(NoVal, err)
    ELSE IF result.kind = "resp" THEN Ret(result, NoErr)
    ELSE Ret(NoVal, Err("plain", "", "unexpected circuit breaker result type", {}))

\* Faulty variant of UnaryWork: an error is a failure only when its code is
\* one of those tested for
UnaryWorkServerOnly(out) ==
    IF out.err # NoErr /\ IsStatus(out.err) /\ out.err.code \in ServerCodes
    THEN Ret(NoVal, out.err)
    ELSE Ret(NoVal, NoErr)

\* unaryInterceptor, the unit of work: the error of the invoker, whatever
\* its code
UnaryWork(out) ==
    IF out.err # NoErr
    THEN IF IsStatus(out.err) /\ out.err.code \in ServerCodes
         THEN Ret(NoVal, out.err)
         ELSE Ret(NoVal, out.err)
    ELSE Ret(NoVal, NoErr)

\* unaryInterceptor, after Execute has returned err
UnaryInterceptor(err) ==
    IF err # NoErr
    THEN IF ErrorsIs(err, ErrOpenState) \/ ErrorsIs(err, ErrTooManyRequests)
         THEN Ret(NoVal, StatusError("Unavailable", "circuit breaker is open: " \o err.msg))
         ELSE Ret(NoVal, err)
    ELSE NoRet

\* streamInterceptor, the unit of work: the error of the streamer, whatever
\* its code, or the stream
StreamWork(out) ==
    IF out.err # NoErr
    THEN IF IsStatus(out.err) /\ out.err.code \in ServerCodes
         THEN Ret(NoVal, out.err)
         ELSE Ret(NoVal, out.err)
    ELSE Ret(out.val, NoErr)

\* streamInterceptor, after Execute has returned err and the unit of work
\* has left its stream in strm
StreamInterceptor(strm, err) ==
    IF err # NoErr
    THEN IF ErrorsIs(err, ErrOpenState) \/ ErrorsIs(err, ErrTooManyRequests)
         THEN Ret(NoVal, StatusError("Unavailable", "circuit breaker is open: " \o err.msg))
         ELSE Ret(NoVal, err)
    ELSE IF strm.kind = "nil" THEN Ret(NoVal, StatusError("Internal", "stream is nil"))
    ELSE Ret(strm, NoErr)

\* the unit of work that guard g passes to Execute, for outcome out of the
\* transport
GuardWork(g, out) ==
    CASE g = "http"   -> RoundTripWork(out)
      [] g = "unary"  -> UnaryWork(out)
      [] g = "stream" -> StreamWork(out)
      [] OTHER        -> out

\* what guard g returns to its caller when Execute has returned r
GuardReturn(g, r) ==
    CASE g = "http"   -> RoundTrip(r.val, r.err)
      [] g = "unary"  -> UnaryInterceptor(r.err)
      [] g = "stream" -> StreamInterceptor(r.val, r.err)
      [] OTHER        -> r

\* createExtension has built the breaker for cfg and no call was made
CbFresh(cfg) ==
    /\ cbConfig = cfg
    /\ cbNow = StartOfTime
    /\ cb = NewCircuitBreaker(Settings(cfg), StartOfTime)
    /\ callPc = [c \in Callers |-> "idle"]
    /\ callGen = [c \in Callers |-> 0]
    /\ callResult = [c \in Callers |-> "none"]
    /\ hoAdmitted = 0
    /\ openedAt = ZeroTime
    /\ winFails = 0
    /\ runFails = 0
    /\ closedGen = cb.generation
    /\ hoOk = 0
    /\ hoSucc = 0
    /\ callGuard = [c \in Callers |-> "direct"]
    /\ callOutcome = [c \in Callers |-> NoRet]
    /\ callRet = [c \in Callers |-> NoRet]
    /\ stream = [c \in Callers |-> "none"]
    /\ nCalls = 0
    /\ nCbTicks = 0

ZeroSums == [k \in Strings |-> 0]
NoSave == [status |-> "no", agg |-> EmptyMap, doc |-> Absent]
NoState == [valid |-> FALSE, agg |-> EmptyMap, created |-> EmptyFn]
NoBatch == [failed |-> FALSE, points |-> {}]

\* newProcessor: an empty non-nil map, an open done channel, no client
Fresh ==
    /\ hostPc = "new"
    /\ storageClient = "nil"
    /\ aggregations = EmptyMap
    /\ done = FALSE
    /\ mu = Free
    /\ loopPc = "none"
    /\ tickPending = FALSE
    /\ ingestPc = [t \in Threads |-> "idle"]
    /\ ingestBatch = [t \in Threads |-> <<>>]
    /\ ingestIdx = [t \in Threads |-> 1]
    /\ ingestResult = [t \in Threads |-> "none"]
    /\ ingestBefore = [t \in Threads |-> EmptyMap]
    /\ flushPc = [s \in FlushSlots |-> "idle"]
    /\ md = [s \in FlushSlots |-> {}]
    /\ saved = [s \in FlushSlots |-> NoSave]
    /\ sinkCalls = 0
    /\ lastFailed = NoBatch
    /\ created = EmptyFn
    /\ base = EmptyMap
    /\ applied = ZeroSums
    /\ reloaded = NoState
    /\ sdWrite = "no"

Init ==
    /\ config \in Configs
    /\ store \in InitialDocs
    /\ ~config.checkpointFile => store \in {Absent, ValidDoc}
    /\ (config.storageID # "ok" /\ ~config.checkpointFile) => store = Absent
    /\ persisted = NoState
    /\ nIngests = 0
    /\ now = StartOfTime
    /\ nTicks = 0
    /\ nRestarts = 0
    /\ Fresh
    /\ CbFresh(CbConfig(0, 0, 0, "nil"))

(* ------------------------- checkpoint write ---------------------------- *)
\* a checkpoint target is set: a storage client or a checkpoint file
HasCheckpoint(client) == client # "nil" \/ config.checkpointFile
\* saveStateLocked returns at once when neither a client nor a file is set
Unconfigured == ~HasCheckpoint(storageClient)

\* How a write can end.  storageClient.Set either stores the value or fails
\* and leaves it; os.WriteFile truncates the file before it writes, so a
\* failure leaves either the old file or a truncated one.
SaveOutcomes ==
    IF Unconfigured THEN {"skipped"}
    ELSE IF storageClient # "nil" THEN {"ok", "failed"}
    ELSE {"ok", "failed", "partial"}

\* saveStateLocked: the store after the write and how the write ended
SaveStateLocked(out) ==
    LET data == Marshal(aggregations)
    IN  [status |-> IF out = "partial" THEN "failed" ELSE out,
         agg    |-> aggregations,
         doc    |-> data,
         store  |-> CASE out = "ok"      -> data
                      [] out = "partial" -> Invalid
                      [] OTHER           -> store]

\* the state that the stored checkpoint was written from, after a write
PersistedAfter(r) ==
    IF r.status = "ok"
    THEN [valid |-> TRUE, agg |-> aggregations, created |-> created]
    ELSE IF r.store # store THEN NoState ELSE persisted

(* ----------------------------- life cycle ------------------------------ *)
\* loadState: what p.aggregations is after it, given whether the read failed
LoadState(client, readErr) ==
    IF ~HasCheckpoint(client) \/ readErr \/ store = Absent
    THEN aggregations
    ELSE Unmarshal(store, aggregations).agg

\* Faulty variant of Start: a storage extension that cannot be used is
\* ignored, and Start goes on without a client
StartLenient(readErr) ==
    /\ hostPc = "new"
    /\ storageClient' = IF config.storageID = "ok" THEN "open" ELSE "nil"
    /\ aggregations' = LoadState(storageClient', readErr)
    /\ base' = aggregations'
    /\ created' = [k \in DOMAIN aggregations'.m |-> now]
    /\ reloaded' = IF HasCheckpoint(storageClient') /\ ~readErr /\ store # Absent
                   THEN persisted ELSE NoState
    /\ loopPc' = "select"
    /\ hostPc' = "running"
    /\ UNCHANGED <<done, mu, tickPending, applied>>
    /\ UNCHANGED <<ingestVars, flushVars, sinkVars, envVars, store, persisted>>
    /\ UNCHANGED <<sdWrite, cbVars>>

\* Start: get the storage client, load the checkpoint, start flushLoop
Start(readErr) ==
    /\ hostPc = "new"
    /\ IF config.storageID \in {"missing", "notStorage", "clientErr"}
       THEN /\ hostPc' = "start_failed"
            /\ ~readErr
            /\ UNCHANGED <<storageClient, aggregations, done, mu, loopPc, tickPending,
                           ghostVars>>
       ELSE /\ storageClient' = IF config.storageID = "ok" THEN "open" ELSE "nil"
            /\ aggregations' = LoadState(storageClient', readErr)
            /\ base' = aggregations'
            /\ created' = [k \in DOMAIN aggregations'.m |-> now]
            /\ reloaded' = IF HasCheckpoint(storageClient') /\ ~readErr /\ store # Absent
                           THEN persisted ELSE NoState
            /\ loopPc' = "select"
            /\ hostPc' = "running"
            /\ UNCHANGED <<done, mu, tickPending, applied>>
    /\ UNCHANGED <<ingestVars, flushVars, sinkVars, envVars, store, persisted>>
    /\ UNCHANGED <<sdWrite, cbVars>>

\* Shutdown, first statement: close(p.done)
ShutdownBegin ==
    /\ hostPc = "running"
    /\ done' = TRUE
    /\ hostPc' = "sd_save"
    /\ UNCHANGED <<storageClient, aggregations, mu, loopPc, tickPending>>
    /\ UNCHANGED <<ingestVars, flushVars, sinkVars, ghostVars, envVars, store, persisted>>
    /\ UNCHANGED <<sdWrite, cbVars>>

\* Faulty variant of ShutdownSave: Shutdown also hands a batch to the sink
ShutdownSaveAndSend(out) ==
    /\ hostPc = "sd_save"
    /\ mu = Free
    /\ out \in SaveOutcomes
    /\ LET r == SaveStateLocked(out)
       IN  /\ store' = r.store
           /\ persisted' = PersistedAfter(r)
           /\ sdWrite' = r.status
    /\ hostPc' = "sd_close"
    /\ sinkCalls' = sinkCalls + 1
    /\ UNCHANGED <<storageClient, aggregations, done, mu, loopPc, tickPending>>
    /\ UNCHANGED <<ingestVars, flushVars, lastFailed, ghostVars, envVars>>
    /\ UNCHANGED cbVars

\* Shutdown, p.saveState: lock, saveStateLocked, unlock
ShutdownSave(out) ==
    /\ hostPc = "sd_save"
    /\ mu = Free
    /\ out \in SaveOutcomes
    /\ LET r == SaveStateLocked(out)
       IN  /\ store' = r.store
           /\ persisted' = PersistedAfter(r)
           /\ sdWrite' = r.status
    /\ hostPc' = "sd_close"
    /\ UNCHANGED <<storageClient, aggregations, done, mu, loopPc, tickPending>>
    /\ UNCHANGED <<ingestVars, flushVars, sinkVars, ghostVars, envVars>>
    /\ UNCHANGED cbVars

\* Shutdown, end: close the storage client when there is one
ShutdownClose ==
    /\ hostPc = "sd_close"
    /\ storageClient' = IF storageClient # "nil" THEN "closed" ELSE storageClient
    /\ hostPc' = "stopped"
    /\ UNCHANGED <<aggregations, done, mu, loopPc, tickPending>>
    /\ UNCHANGED <<ingestVars, flushVars, sinkVars, ghostVars, envVars, store, persisted>>
    /\ UNCHANGED <<sdWrite, cbVars>>

\* the joint bound on calls, ticks and restarts has room for one more
EventsLeft == nIngests + nTicks + nRestarts < MaxEvents

\* The process ends (exit after Shutdown, or a crash at any point) and a new
\* one is constructed against the same checkpoint store.
Restart ==
    /\ hostPc # "new"
    /\ nRestarts < MaxRestarts
    /\ EventsLeft
    /\ nRestarts' = nRestarts + 1
    /\ hostPc' = "new"
    /\ storageClient' = "nil"
    /\ aggregations' = EmptyMap
    /\ done' = FALSE
    /\ mu' = Free
    /\ loopPc' = "none"
    /\ tickPending' = FALSE
    /\ ingestPc' = [t \in Threads |-> "idle"]
    /\ ingestBatch' = [t \in Threads |-> <<>>]
    /\ ingestIdx' = [t \in Threads |-> 1]
    /\ ingestResult' = [t \in Threads |-> "none"]
    /\ ingestBefore' = [t \in Threads |-> EmptyMap]
    /\ flushPc' = [s \in FlushSlots |-> "idle"]
    /\ md' = [s \in FlushSlots |-> {}]
    /\ saved' = [s \in FlushSlots |-> NoSave]
    /\ sinkCalls' = 0
    /\ lastFailed' = NoBatch
    /\ created' = EmptyFn
    /\ base' = EmptyMap
    /\ applied' = ZeroSums
    /\ reloaded' = NoState
    /\ sdWrite' = "no"
    /\ UNCHANGED <<config, now, nTicks, nIngests, store, persisted>>
    /\ UNCHANGED cbVars

\* One ticker period passes; a running ticker puts a tick into ticker.C
\* (capacity 1, a tick is dropped when one is waiting).
Tick ==
    /\ nTicks < MaxTicks
    /\ EventsLeft
    /\ nTicks' = nTicks + 1
    /\ now' = now + FlushInterval
    /\ tickPending' = IF loopPc \in {"select", "flush"} /\ hostPc # "dead"
                      THEN TRUE ELSE tickPending
    /\ UNCHANGED <<hostPc, storageClient, aggregations, done, mu, loopPc>>
    /\ UNCHANGED <<ingestVars, flushVars, sinkVars, ghostVars, config, nRestarts,
                   nIngests, store, persisted>>
    /\ UNCHANGED <<sdWrite, cbVars>>

(* ------------------------------ ingest --------------------------------- *)
Alive == hostPc \in {"running", "sd_save", "sd_close", "stopped"}

\* Faulty variant of GroupKey: the data point is aggregated under its work.id
GroupKeyById(dp) == dp.workId

\* the map key a data point is aggregated under: its work.type
GroupKey(dp) == dp.workType

\* Faulty variant of AddValue: the data point's value replaces the group's value
AddValueOverwrite(old, v) == v

\* p.aggregations[key] += dp.IntValue()
AddValue(old, v) == old + v

\* Faulty variant of ConsumeResult: a data point without work.type is an error
ConsumeResultStrict(b) ==
    IF \E i \in 1..Len(b) : b[i].mtype = "sum" /\ ~b[i].hasType THEN "error" ELSE "nil"

\* what ConsumeMetrics returns for batch b: nil
ConsumeResult(b) == "nil"

\* Faulty variant of Counted: a data point without work.type is added under
\* the empty key
CountedUnlabelled(dp) == dp.mtype = "sum"

\* a data point that ConsumeMetrics adds: in a Sum metric, with a work.type
Counted(dp) == dp.mtype = "sum" /\ dp.hasType

\* the sum of the values of the counted data points of b under key k
RECURSIVE BatchSum(_, _)
BatchSum(b, k) ==
    IF b = <<>> THEN 0
    ELSE (IF Counted(Head(b)) /\ Head(b).workType = k THEN Head(b).val ELSE 0)
         + BatchSum(Tail(b), k)

\* the caller thread that takes the next call: the first one that is idle
NextThread(t) ==
    /\ ingestPc[t] = "idle"
    /\ \A o \in Threads : (o = "t1" /\ t = "t2") => ingestPc[o] # "idle"

\* Faulty variant of IngestLock: ConsumeMetrics runs without taking p.mu
IngestNoLock(t, b) ==
    /\ hostPc = "running"
    /\ NextThread(t)
    /\ nIngests < MaxIngests
    /\ EventsLeft
    /\ ingestPc' = [ingestPc EXCEPT ![t] = "loop"]
    /\ ingestBatch' = [ingestBatch EXCEPT ![t] = b]
    /\ ingestIdx' = [ingestIdx EXCEPT ![t] = 1]
    /\ ingestResult' = [ingestResult EXCEPT ![t] = "none"]
    /\ ingestBefore' = [ingestBefore EXCEPT ![t] = aggregations]
    /\ nIngests' = nIngests + 1
    /\ UNCHANGED <<hostPc, storageClient, aggregations, done, mu, loopPc, tickPending>>
    /\ UNCHANGED <<flushVars, sinkVars, ghostVars, config, now, nTicks, nRestarts,
                   store, persisted>>
    /\ UNCHANGED <<sdWrite, cbVars>>

\* ConsumeMetrics, entry: p.mu.Lock()
IngestLock(t, b) ==
    /\ hostPc = "running"
    /\ NextThread(t)
    /\ nIngests < MaxIngests
    /\ EventsLeft
    /\ mu = Free
    /\ mu' = t
    /\ ingestPc' = [ingestPc EXCEPT ![t] = "loop"]
    /\ ingestBatch' = [ingestBatch EXCEPT ![t] = b]
    /\ ingestIdx' = [ingestIdx EXCEPT ![t] = 1]
    /\ ingestResult' = [ingestResult EXCEPT ![t] = "none"]
    /\ ingestBefore' = [ingestBefore EXCEPT ![t] = aggregations]
    /\ nIngests' = nIngests + 1
    /\ UNCHANGED <<hostPc, storageClient, aggregations, done, loopPc, tickPending>>
    /\ UNCHANGED <<flushVars, sinkVars, ghostVars, config, now, nTicks, nRestarts,
                   store, persisted>>
    /\ UNCHANGED <<sdWrite, cbVars>>

\* ConsumeMetrics, one turn of the innermost loop: the next data point is
\* added to its group.  An assignment to an entry of a nil map panics, which
\* ends the process.  After the last data point: return nil, and the deferred
\* p.mu.Unlock().
IngestPoint(t) ==
    /\ Alive
    /\ ingestPc[t] = "loop"
    /\ LET dp   == ingestBatch[t][ingestIdx[t]]
           k    == GroupKey(dp)
           last == ingestIdx[t] = Len(ingestBatch[t])
       IN  IF Counted(dp) /\ aggregations.isNil
           THEN /\ hostPc' = "dead"
                /\ UNCHANGED <<aggregations, created, applied, mu, ingestVars>>
           ELSE /\ IF Counted(dp)
                   THEN /\ aggregations' =
                             [aggregations EXCEPT
                                 !.m = Put(@, k, AddValue(Get(aggregations, k), dp.val))]
                        /\ created' = IF k \in DOMAIN created THEN created
                                      ELSE Put(created, k, now)
                   ELSE UNCHANGED <<aggregations, created>>
                /\ IF last
                   THEN /\ ingestPc' = [ingestPc EXCEPT ![t] = "idle"]
                        /\ ingestResult' =
                             [ingestResult EXCEPT ![t] = ConsumeResult(ingestBatch[t])]
                        /\ ingestBatch' = [ingestBatch EXCEPT ![t] = <<>>]
                        /\ ingestIdx' = [ingestIdx EXCEPT ![t] = 1]
                        /\ ingestBefore' = [ingestBefore EXCEPT ![t] = EmptyMap]
                        /\ applied' = [x \in Strings |->
                                          applied[x] + BatchSum(ingestBatch[t], x)]
                        /\ mu' = Free
                   ELSE /\ ingestIdx' = [ingestIdx EXCEPT ![t] = @ + 1]
                        /\ UNCHANGED <<ingestPc, ingestResult, ingestBatch,
                                       ingestBefore, applied, mu>>
                /\ UNCHANGED hostPc
    /\ UNCHANGED <<storageClient, done, loopPc, tickPending>>
    /\ UNCHANGED <<flushVars, sinkVars, base, reloaded, envVars, store, persisted>>
    /\ UNCHANGED <<sdWrite, cbVars>>

(* ------------------------------- flush --------------------------------- *)
\* the flush activation that a tick starts: the first one not in use
NextSlot(s) ==
    /\ flushPc[s] = "idle"
    /\ \A o \in FlushSlots : (o = "f1" /\ s = "f2") => flushPc[o] # "idle"

\* Faulty variant of LoopTick: the loop starts the flush with go and selects again
LoopTickAsync(s) ==
    /\ Alive
    /\ loopPc = "select"
    /\ tickPending
    /\ NextSlot(s)
    /\ tickPending' = FALSE
    /\ flushPc' = [flushPc EXCEPT ![s] = "lock"]
    /\ UNCHANGED <<hostPc, storageClient, aggregations, done, mu, loopPc>>
    /\ UNCHANGED <<md, saved, ingestVars, sinkVars, ghostVars, envVars, store, persisted>>
    /\ UNCHANGED <<sdWrite, cbVars>>

\* flushLoop, case <-ticker.C: call p.flush() and wait for it
LoopTick(s) ==
    /\ Alive
    /\ loopPc = "select"
    /\ tickPending
    /\ NextSlot(s)
    /\ tickPending' = FALSE
    /\ loopPc' = "flush"
    /\ flushPc' = [flushPc EXCEPT ![s] = "lock"]
    /\ UNCHANGED <<hostPc, storageClient, aggregations, done, mu>>
    /\ UNCHANGED <<md, saved, ingestVars, sinkVars, ghostVars, envVars, store, persisted>>
    /\ UNCHANGED <<sdWrite, cbVars>>

\* flushLoop, case <-p.done: return; the deferred ticker.Stop()
LoopDone ==
    /\ Alive
    /\ loopPc = "select"
    /\ done
    /\ loopPc' = "returned"
    /\ UNCHANGED <<hostPc, storageClient, aggregations, done, mu, tickPending>>
    /\ UNCHANGED <<flushVars, ingestVars, sinkVars, ghostVars, envVars, store, persisted>>
    /\ UNCHANGED <<sdWrite, cbVars>>

\* Faulty variant of FlushSave: flush takes the lock and writes no checkpoint
FlushNoSave(s, out) ==
    /\ Alive
    /\ flushPc[s] = "lock"
    /\ mu = Free
    /\ mu' = s
    /\ out \in SaveOutcomes
    /\ flushPc' = [flushPc EXCEPT ![s] = "check"]
    /\ UNCHANGED <<hostPc, storageClient, aggregations, done, loopPc, tickPending>>
    /\ UNCHANGED <<md, saved, ingestVars, sinkVars, ghostVars, envVars, store, persisted>>
    /\ UNCHANGED <<sdWrite, cbVars>>

\* flush: p.mu.Lock(), then p.saveStateLocked(context.Background())
FlushSave(s, out) ==
    /\ Alive
    /\ flushPc[s] = "lock"
    /\ mu = Free
    /\ mu' = s
    /\ out \in SaveOutcomes
    /\ LET r == SaveStateLocked(out)
       IN  /\ store' = r.store
           /\ persisted' = PersistedAfter(r)
           /\ saved' = [saved EXCEPT ![s] = [status |-> r.status, agg |-> r.agg,
                                              doc |-> r.doc]]
    /\ flushPc' = [flushPc EXCEPT ![s] = "check"]
    /\ UNCHANGED <<hostPc, storageClient, aggregations, done, loopPc, tickPending>>
    /\ UNCHANGED <<md, ingestVars, sinkVars, ghostVars, envVars>>
    /\ UNCHANGED <<sdWrite, cbVars>>

\* Faulty variant of BuildBatch: the data points also carry a work.id
BuildBatchWithId(a) ==
    { [workType |-> k, value |-> a.m[k], attrs |-> {"work.type", "work.id"},
       startTime |-> UnsetTimestamp, temporality |-> "cumulative",
       monotonic |-> TRUE] : k \in DOMAIN a.m }

\* the batch flush builds: one cumulative, monotonic sum data point per map
\* entry, with the work.type attribute and the value; no timestamp is set
BuildBatch(a) ==
    { [workType |-> k, value |-> a.m[k], attrs |-> {"work.type"},
       startTime |-> UnsetTimestamp, temporality |-> "cumulative",
       monotonic |-> TRUE] : k \in DOMAIN a.m }

\* Faulty variant of FlushBuild: flush builds and sends the batch also when the map
\* is empty
FlushBuildAlways(s) ==
    /\ Alive
    /\ flushPc[s] = "check"
    /\ mu' = Free
    /\ flushPc' = [flushPc EXCEPT ![s] = "send"]
    /\ md' = [md EXCEPT ![s] = BuildBatch(aggregations)]
    /\ UNCHANGED <<saved, loopPc>>
    /\ UNCHANGED <<hostPc, storageClient, aggregations, done, tickPending>>
    /\ UNCHANGED <<ingestVars, sinkVars, ghostVars, envVars, store, persisted>>
    /\ UNCHANGED <<sdWrite, cbVars>>

\* Faulty variant of FlushBuild: flush returns without a batch when its
\* checkpoint write failed
FlushBuildIfSaved(s) ==
    /\ Alive
    /\ flushPc[s] = "check"
    /\ mu' = Free
    /\ IF MapLen(aggregations) = 0 \/ saved[s].status = "failed"
       THEN /\ flushPc' = [flushPc EXCEPT ![s] = "idle"]
            /\ saved' = [saved EXCEPT ![s] = NoSave]
            /\ loopPc' = "select"
            /\ UNCHANGED md
       ELSE /\ flushPc' = [flushPc EXCEPT ![s] = "send"]
            /\ md' = [md EXCEPT ![s] = BuildBatch(aggregations)]
            /\ UNCHANGED <<saved, loopPc>>
    /\ UNCHANGED <<hostPc, storageClient, aggregations, done, tickPending>>
    /\ UNCHANGED <<ingestVars, sinkVars, ghostVars, envVars, store, persisted>>
    /\ UNCHANGED <<sdWrite, cbVars>>

\* Faulty variant of FlushBuild: the lock is released only after the send,
\* not before it
FlushBuildLocked(s) ==
    /\ Alive
    /\ flushPc[s] = "check"
    /\ IF MapLen(aggregations) = 0
       THEN /\ flushPc' = [flushPc EXCEPT ![s] = "idle"]
            /\ saved' = [saved EXCEPT ![s] = NoSave]
            /\ loopPc' = "select"
            /\ mu' = Free
            /\ UNCHANGED md
       ELSE /\ flushPc' = [flushPc EXCEPT ![s] = "send"]
            /\ md' = [md EXCEPT ![s] = BuildBatch(aggregations)]
            /\ UNCHANGED <<saved, loopPc, mu>>
    /\ UNCHANGED <<hostPc, storageClient, aggregations, done, tickPending>>
    /\ UNCHANGED <<ingestVars, sinkVars, ghostVars, envVars, store, persisted>>
    /\ UNCHANGED <<sdWrite, cbVars>>

\* flush: return when the map is empty, else build the batch; p.mu.Unlock()
FlushBuild(s) ==
    /\ Alive
    /\ flushPc[s] = "check"
    /\ mu' = Free
    /\ IF MapLen(aggregations) = 0
       THEN /\ flushPc' = [flushPc EXCEPT ![s] = "idle"]
            /\ saved' = [saved EXCEPT ![s] = NoSave]
            /\ loopPc' = "select"
            /\ UNCHANGED md
       ELSE /\ flushPc' = [flushPc EXCEPT ![s] = "send"]
            /\ md' = [md EXCEPT ![s] = BuildBatch(aggregations)]
            /\ UNCHANGED <<saved, loopPc>>
    /\ UNCHANGED <<hostPc, storageClient, aggregations, done, tickPending>>
    /\ UNCHANGED <<ingestVars, sinkVars, ghostVars, envVars, store, persisted>>
    /\ UNCHANGED <<sdWrite, cbVars>>

\* Faulty variant of FlushSend: flushLoop leaves its loop after a flush that
\* has sent a batch
FlushSendOnce(s, err) ==
    /\ Alive
    /\ flushPc[s] = "send"
    /\ sinkCalls' = IF sinkCalls < MaxSends THEN sinkCalls + 1 ELSE sinkCalls
    /\ lastFailed' = IF err THEN [failed |-> TRUE, points |-> md[s]] ELSE NoBatch
    /\ flushPc' = [flushPc EXCEPT ![s] = "idle"]
    /\ md' = [md EXCEPT ![s] = {}]
    /\ saved' = [saved EXCEPT ![s] = NoSave]
    /\ loopPc' = "returned"
    /\ UNCHANGED <<hostPc, storageClient, aggregations, done, mu, tickPending>>
    /\ UNCHANGED <<ingestVars, ghostVars, envVars, store, persisted>>
    /\ UNCHANGED <<sdWrite, cbVars>>

\* flush: p.next.ConsumeMetrics(context.Background(), md); an error is logged
FlushSend(s, err) ==
    /\ Alive
    /\ flushPc[s] = "send"
    /\ sinkCalls' = IF sinkCalls < MaxSends THEN sinkCalls + 1 ELSE sinkCalls
    /\ lastFailed' = IF err THEN [failed |-> TRUE, points |-> md[s]] ELSE NoBatch
    /\ flushPc' = [flushPc EXCEPT ![s] = "idle"]
    /\ md' = [md EXCEPT ![s] = {}]
    /\ saved' = [saved EXCEPT ![s] = NoSave]
    /\ loopPc' = "select"
    /\ UNCHANGED <<hostPc, storageClient, aggregations, done, mu, tickPending>>
    /\ UNCHANGED <<ingestVars, ghostVars, envVars, store, persisted>>
    /\ UNCHANGED <<sdWrite, cbVars>>

(* --------------------------- specification ----------------------------- *)
Next ==
    \/ \E readErr \in BOOLEAN : Start(readErr)
    \/ ShutdownBegin
    \/ \E out \in {"ok", "failed", "partial", "skipped"} : ShutdownSave(out)
    \/ ShutdownClose
    \/ Restart
    \/ Tick
    \/ \E t \in Threads, b \in Batches : IngestLock(t, b)
    \/ \E t \in Threads : IngestPoint(t)
    \/ \E s \in FlushSlots : LoopTick(s)
    \/ LoopDone
    \/ \E s \in FlushSlots, out \in {"ok", "failed", "partial", "skipped"} : FlushSave(s, out)
    \/ \E s \in FlushSlots : FlushBuild(s)
    \/ \E s \in FlushSlots, err \in BOOLEAN : FlushSend(s, err)

Spec == Init /\ [][Next]_vars

(* ---------------------- circuit breaker: actions ----------------------- *)
\* the settings of the breaker in use
St == Settings(cbConfig)

\* the caller that makes the next call: the first one that is idle
NextCaller(c) ==
    /\ callPc[c] = "idle"
    /\ \A o \in Callers : (o = "c1" /\ c = "c2") => callPc[o] # "idle"

\* the closed window has ended as of the clock
WindowEnded == cb.state = "closed" /\ cb.expiry # ZeroTime /\ cb.expiry < cbNow

\* A call through guard g (or a direct call of Execute).  Execute,
\* beforeRequest: the call is rejected with ErrOpenState or
\* ErrTooManyRequests and the guard returns, or it is admitted and its unit
\* of work begins
ExecuteBegin(c, g) ==
    /\ NextCaller(c)
    /\ nCalls < (IF g = "direct" THEN MaxCalls ELSE MaxGuardCalls)
    /\ callGuard' = [callGuard EXCEPT ![c] = g]
    /\ callOutcome' = [callOutcome EXCEPT ![c] = NoRet]
    /\ stream' = [stream EXCEPT ![c] = "none"]
    /\ nCalls' = nCalls + 1
    /\ LET r == BeforeRequest(cb, St, cbNow)
       IN  /\ cb' = r.cb
           /\ IF r.err = "nil"
              THEN /\ callPc' = [callPc EXCEPT ![c] = "work"]
                   /\ callGen' = [callGen EXCEPT ![c] = r.cb.generation]
                   /\ callResult' = [callResult EXCEPT ![c] = "none"]
              ELSE /\ callResult' = [callResult EXCEPT ![c] = r.err]
                   /\ UNCHANGED <<callPc, callGen>>
           /\ callRet' = [callRet EXCEPT ![c] =
                             IF r.err = "nil" THEN NoRet
                             ELSE GuardReturn(g, Ret(NoVal, RejectionErr(r.err)))]
           /\ hoAdmitted' = IF r.cb.state # "halfOpen" THEN 0
                            ELSE (IF cb.state = "halfOpen" THEN hoAdmitted ELSE 0)
                                 + (IF r.err = "nil" THEN 1 ELSE 0)
           /\ winFails' = IF r.cb.generation # cb.generation THEN 0 ELSE winFails
           /\ hoOk' = IF r.cb.state = "halfOpen" /\ cb.state = "halfOpen" THEN hoOk ELSE 0
           /\ hoSucc' = IF r.cb.state = "halfOpen" /\ cb.state = "halfOpen"
                        THEN hoSucc ELSE 0
    /\ UNCHANGED <<cbConfig, cbNow, openedAt, runFails, closedGen, nCbTicks>>
    /\ UNCHANGED aggVars

\* Execute, the unit of work returns what the guard makes of the outcome of
\* the transport, afterRequest records it as a success when its error is
\* nil and as a failure otherwise, and the guard returns to its caller
ExecuteEnd(c, out) ==
    /\ callPc[c] = "work"
    /\ out \in Outcomes(callGuard[c])
    /\ LET work    == GuardWork(callGuard[c], out)
           success == work.err = NoErr
           ret     == GuardReturn(callGuard[c], work)
       IN  /\ cb' = AfterRequest(cb, St, callGen[c], success, cbNow)
           /\ callResult' = [callResult EXCEPT ![c] = IF success THEN "ok" ELSE "err"]
           /\ callOutcome' = [callOutcome EXCEPT ![c] = out]
           /\ callRet' = [callRet EXCEPT ![c] = ret]
           /\ stream' = [stream EXCEPT ![c] =
                            IF ret.val.kind = "stream" THEN "open" ELSE "none"]
           /\ winFails' = IF cb.state # "closed" \/ WindowEnded THEN 0
                          ELSE IF callGen[c] # cb.generation THEN winFails
                          ELSE IF success THEN 0 ELSE winFails + 1
           /\ runFails' = IF cb.state # "closed" THEN 0
                          ELSE IF callGen[c] < closedGen THEN runFails
                          ELSE IF success THEN 0 ELSE runFails + 1
           /\ hoOk' = IF cb'.state # "halfOpen" \/ cb.state # "halfOpen" THEN 0
                       ELSE IF success THEN hoOk + 1 ELSE 0
           /\ hoSucc' = IF cb'.state # "halfOpen" \/ cb.state # "halfOpen" THEN 0
                         ELSE IF callGen[c] # cb.generation THEN hoSucc
                         ELSE IF success THEN hoSucc + 1 ELSE 0
    /\ callPc' = [callPc EXCEPT ![c] = "idle"]
    /\ hoAdmitted' = IF cb'.state = "halfOpen" /\ cb.state = "halfOpen"
                     THEN hoAdmitted ELSE 0
    /\ openedAt' = IF cb'.state = "open" /\ cb.state # "open" THEN cbNow ELSE openedAt
    /\ closedGen' = IF cb'.state = "closed" /\ cb.state # "closed"
                    THEN cb'.generation ELSE closedGen
    /\ UNCHANGED <<cbConfig, cbNow, callGen, callGuard, nCalls, nCbTicks>>
    /\ UNCHANGED aggVars

\* Faulty variant of StreamRecv: an error of the stream is recorded as a
\* failure of the breaker
StreamRecvCounted(c, err) ==
    /\ callPc[c] = "idle"
    /\ stream[c] = "open"
    /\ stream' = [stream EXCEPT ![c] = IF err THEN "failed" ELSE "done"]
    /\ cb' = IF err THEN OnFailure(CurrentState(cb, St, cbNow), St, cbNow) ELSE cb
    /\ UNCHANGED <<cbConfig, cbNow, callPc, callGen, callResult, hoAdmitted, openedAt,
                   winFails, runFails, closedGen, hoOk, hoSucc, nCalls, nCbTicks,
                   callGuard, callOutcome, callRet>>
    /\ UNCHANGED aggVars

\* The caller consumes the stream that streamInterceptor returned to it, up
\* to its end or to an error.  The interceptor returns the streamer's stream
\* as it is, so the breaker has no part in it.
StreamRecv(c, err) ==
    /\ callPc[c] = "idle"
    /\ stream[c] = "open"
    /\ stream' = [stream EXCEPT ![c] = IF err THEN "failed" ELSE "done"]
    /\ UNCHANGED <<cbConfig, cb, cbNow, callPc, callGen, callResult, hoAdmitted, openedAt,
                   winFails, runFails, closedGen, hoOk, hoSucc, nCalls, nCbTicks,
                   callGuard, callOutcome, callRet>>
    /\ UNCHANGED aggVars

\* the breaker's clock advances by one step
CbTick ==
    /\ nCbTicks < MaxCbTicks
    /\ nCbTicks' = nCbTicks + 1
    /\ cbNow' = cbNow + ClockStep
    /\ UNCHANGED <<cbConfig, cb, callPc, callGen, callResult, hoAdmitted, openedAt,
                   winFails, runFails, closedGen, hoOk, hoSucc, nCalls, guardVars>>
    /\ UNCHANGED aggVars

\* the extension is created for one of the configurations; the processor is
\* constructed and idle
InitCB ==
    /\ \E cfg \in CbConfigs : CbFresh(cfg)
    /\ config = Cfg(FALSE, "nil")
    /\ store = Absent
    /\ persisted = NoState
    /\ nIngests = 0
    /\ now = StartOfTime
    /\ nTicks = 0
    /\ nRestarts = 0
    /\ Fresh

NextCB ==
    \/ \E c \in Callers : ExecuteBegin(c, "direct")
    \/ \E c \in Callers, out \in Outcomes("direct") : ExecuteEnd(c, out)
    \/ CbTick

SpecCB == InitCB /\ [][NextCB]_vars

(* ------------------------ call guards: specification ------------------- *)
\* the configuration of the extension whose calls go through the guards:
\* max_requests and interval not set, a ReadyToTrip of the embedding program
GuardConfigs == { CbConfig(0, 0, ClockStep, "custom") }

\* every outcome of a wrapped transport
AllOutcomes == UNION {Outcomes(g) : g \in Guards}

InitGuard ==
    /\ \E cfg \in GuardConfigs : CbFresh(cfg)
    /\ config = Cfg(FALSE, "nil")
    /\ store = Absent
    /\ persisted = NoState
    /\ nIngests = 0
    /\ now = StartOfTime
    /\ nTicks = 0
    /\ nRestarts = 0
    /\ Fresh

NextGuard ==
    \/ \E c \in Callers, g \in Guards : ExecuteBegin(c, g)
    \/ \E c \in Callers, out \in AllOutcomes : ExecuteEnd(c, out)
    \/ \E c \in Callers, err \in BOOLEAN : StreamRecv(c, err)
    \/ CbTick

SpecGuard == InitGuard /\ [][NextGuard]_vars

(* ------------------------- helpers of the claims ----------------------- *)
\* no ConsumeMetrics call is in progress
AllIdle == \A t \in Threads : ingestPc[t] = "idle"

\* the step is taken by the same process (it is not a restart)
SameRun == nRestarts' = nRestarts

\* a step of flush activation s, from the tick that starts it to its return
FlushStep(s) == SameRun /\ flushPc'[s] # flushPc[s]

\* the step in which flush activation s returns from next.ConsumeMetrics
SendStep(s) == SameRun /\ flushPc[s] = "send" /\ flushPc'[s] = "idle"

\* the step in which thread t's ConsumeMetrics call returns
ReturnStep(t) == SameRun /\ ingestPc[t] = "loop" /\ ingestPc'[t] = "idle"

\* a step of thread t inside ConsumeMetrics
IngestStep(t) ==
    SameRun /\ (ingestPc'[t] # ingestPc[t] \/ ingestIdx'[t] # ingestIdx[t])

\* the group values that a batch of output data points carries, as a map
BatchAsMap(points) ==
    [isNil |-> FALSE,
     m |-> [k \in {dp.workType : dp \in points} |->
               (CHOOSE dp \in points : dp.workType = k).value]]

\* the group values that a stored checkpoint holds
StoredValues(doc) == Unmarshal(doc, EmptyMap).agg.m

(* ------------------------------- claims -------------------------------- *)
\* C1: whenever no ConsumeMetrics call is in progress, the value of every
\* group key equals what loadState restored for it plus the sum of the values
\* of all counted data points of the calls made so far, on every interleaving
\* with flushes; and no step of a flush lowers the value of any key.
C1_CumulativeSum ==
    /\ [](AllIdle => \A k \in Strings :
                        Get(aggregations, k) = Get(base, k) + applied[k])
    /\ [][\A s \in FlushSlots : FlushStep(s) =>
              /\ DOMAIN aggregations.m \subseteq DOMAIN aggregations'.m
              /\ \A k \in Strings : Get(aggregations', k) >= Get(aggregations, k)]_vars

\* C1 witness: a flush sent manual = 1, its send failed, and a second call has
\* since raised the group to the sum of both calls
C1_Witness ==
    /\ AllIdle
    /\ nIngests = 2
    /\ base = EmptyMap
    /\ lastFailed.failed
    /\ \E dp \in lastFailed.points : dp.workType = "manual" /\ dp.value = 1
    /\ Get(aggregations, "manual") = 4

\* C2 (the claim as stated): every data point of a batch that flush hands to
\* the sink carries, as its start time, the clock reading at which its
\* group's entry was created.
C2_StartTimeStable ==
    \A s \in FlushSlots : flushPc[s] = "send" =>
        \A dp \in md[s] : /\ dp.workType \in DOMAIN created
                           /\ dp.startTime = created[dp.workType]

\* C3 (the claim as stated): when loadState has read back a checkpoint that a
\* previous process wrote, the state has, before any further ingest, the
\* keys, values and per-group start times of the state that was persisted.
C3_ReloadIdentical ==
    (hostPc = "running" /\ reloaded.valid /\ AllIdle /\ applied = ZeroSums) =>
        /\ aggregations = reloaded.agg
        /\ created = reloaded.created

C5_EmptyFlushNoSend ==
    /\ [](\A s \in FlushSlots : flushPc[s] = "send" => md[s] # {})
    /\ [][\A s \in FlushSlots :
              (FlushStep(s) /\ flushPc[s] = "check" /\ MapLen(aggregations) = 0) =>
                  /\ flushPc'[s] = "idle"
                  /\ sinkCalls' = sinkCalls]_vars

\* C5 witness: a flush has written the checkpoint and stands at its check
\* with an empty map
C5_Witness ==
    \E s \in FlushSlots :
        flushPc[s] = "check" /\ MapLen(aggregations) = 0 /\ saved[s].status = "ok"

\* all data points of b are counted, share one work.type and have pairwise
\* distinct work.id
OneKeyDistinctIds(b) ==
    /\ Len(b) >= 2
    /\ \A i \in 1..Len(b) : Counted(b[i]) /\ b[i].workType = b[1].workType
    /\ \A i, j \in 1..Len(b) : i # j => b[i].workId # b[j].workId

\* C6: when a call returns whose data points share one work.type and have
\* pairwise distinct work.id, the map has, beyond the entries it had when the
\* call began, exactly the one entry of that work.type, and its value is the
\* value it had plus the sum of the data points' values.
C6_OneGroupPerKey ==
    [][\A t \in Threads : (ReturnStep(t) /\ OneKeyDistinctIds(ingestBatch[t])) =>
          LET b == ingestBatch[t]
              k == b[1].workType
          IN  /\ DOMAIN aggregations'.m = DOMAIN ingestBefore[t].m \cup {k}
              /\ aggregations'.m[k] = Get(ingestBefore[t], k) + BatchSum(b, k)]_vars

\* C6 witness: one call with two data points of work.type manual and
\* different work.id has returned, and the only entry is manual = 3
C6_Witness ==
    /\ AllIdle
    /\ nIngests = 1
    /\ base = EmptyMap
    /\ DOMAIN aggregations.m = {"manual"}
    /\ aggregations.m["manual"] = 3

\* C7 (the claim as stated): a failed downstream send changes neither the
\* map nor the checkpoint, is not retried in its flush, and the next flush
\* sends, for every group of the failed batch, the same or a larger value.
C7_FailedSendKeepsState ==
    [][\A s \in FlushSlots : SendStep(s) =>
          /\ lastFailed'.failed =>
                 /\ aggregations' = aggregations
                 /\ store' = store
                 /\ sinkCalls' = sinkCalls + 1
          /\ lastFailed.failed =>
                 \A dp \in lastFailed.points :
                     \E dp2 \in md[s] : /\ dp2.workType = dp.workType
                                         /\ dp2.value >= dp.value]_vars

\* C8: no step of a ConsumeMetrics call calls the sink or touches a batch
\* of flush, every call that returns returns nil, and the only call that
\* does not return is one that stores into a nil map.
C8_IngestNeverForwards ==
    /\ [](\A t \in Threads : ingestResult[t] \in {"none", "nil"})
    /\ [](hostPc = "dead" => aggregations.isNil)
    /\ [][\A t \in Threads : IngestStep(t) =>
              /\ sinkCalls' = sinkCalls
              /\ md' = md
              /\ flushPc' = flushPc]_vars

\* C8 witness: a call whose batch has a data point without work.type has
\* returned nil while a flush waits to send its batch
C8_Witness ==
    /\ \E t \in Threads : ingestResult[t] = "nil" /\ ingestPc[t] = "idle"
    /\ applied["auto"] = -1
    /\ \E s \in FlushSlots : flushPc[s] = "send"

\* C9: while a flush holds the lock no ConsumeMetrics call is inside its
\* loop, the values the flush saves are those of whole batches only, and the
\* batch it builds has exactly the values it saved.
C9_FlushSeesWholeBatches ==
    \A s \in FlushSlots :
        /\ flushPc[s] = "check" =>
               /\ AllIdle
               /\ saved[s].agg = aggregations
               /\ \A k \in Strings :
                      Get(aggregations, k) = Get(base, k) + applied[k]
        /\ flushPc[s] = "send" =>
               /\ BatchAsMap(md[s]) = saved[s].agg
               /\ saved[s].status = "ok" => StoredValues(saved[s].doc) = saved[s].agg.m

\* C9 witness: a flush has built its batch from one whole call and a second
\* call is in the middle of its batch
C9_Witness ==
    /\ \E s \in FlushSlots : flushPc[s] = "send" /\ saved[s].status = "ok"
    /\ \E t \in Threads : ingestPc[t] = "loop" /\ ingestIdx[t] = 2

\* C10: at most one flush is in progress at any time, from the tick that
\* starts it to the return of its downstream send.
C10_OneFlushAtATime ==
    /\ Cardinality({s \in FlushSlots : flushPc[s] # "idle"}) <= 1
    /\ loopPc = "select" => \A s \in FlushSlots : flushPc[s] = "idle"

\* C10 witness: a second flush is at its send after the first one's send
\* returned
C10_Witness ==
    /\ sinkCalls = 1
    /\ \E s \in FlushSlots : flushPc[s] = "send"

\* C11 (the claim as stated): once Shutdown has closed p.done, flushLoop
\* starts no flush; a tick that waits in ticker.C at that moment is not
\* acted on.
C11_NoFlushAfterStop ==
    [][\A s \in FlushSlots :
          (SameRun /\ done /\ flushPc[s] = "idle") => flushPc'[s] = "idle"]_vars

\* the step in which Shutdown's saveState runs
ShutdownSaveStep == SameRun /\ hostPc = "sd_save" /\ hostPc' = "sd_close"

\* C12 (the claim as stated): Shutdown's final flush hands one batch to the
\* sink when the state is not empty.
C12_ShutdownFlushSends ==
    [][(ShutdownSaveStep /\ MapLen(aggregations) > 0) =>
           sinkCalls' = sinkCalls + 1]_vars

\* C12 (amended): Shutdown closes p.done, then writes the checkpoint once
\* under the lock without a call of the sink and without a change of the
\* map, then closes the storage client when there is one; the client is
\* open until Shutdown's write is over.
C12_ShutdownOrder ==
    /\ [](hostPc \in {"sd_save", "sd_close", "stopped"} => done)
    /\ [](hostPc \in {"running", "sd_save", "sd_close"} => storageClient # "closed")
    /\ [](hostPc = "stopped" => storageClient # "open")
    /\ [][(SameRun /\ hostPc' # hostPc /\ hostPc' \in {"sd_save", "sd_close", "stopped"}) =>
              \/ hostPc = "running"  /\ hostPc' = "sd_save"
              \/ hostPc = "sd_save"  /\ hostPc' = "sd_close"
              \/ hostPc = "sd_close" /\ hostPc' = "stopped"]_vars
    /\ [][ShutdownSaveStep =>
              /\ mu = Free /\ mu' = Free
              /\ sinkCalls' = sinkCalls
              /\ md' = md
              /\ aggregations' = aggregations
              /\ store' \in {store, Marshal(aggregations), Invalid}
              /\ Unconfigured => store' = store]_vars

\* C12 witness: Shutdown has ended with the storage client closed and the
\* checkpoint holding the non-empty state, and the sink was never called
C12_Witness ==
    /\ hostPc = "stopped"
    /\ storageClient = "closed"
    /\ MapLen(aggregations) > 0
    /\ applied["manual"] > 0
    /\ store = Marshal(aggregations)
    /\ sinkCalls = 0

\* json.Unmarshal reports an error for the stored checkpoint
Malformed(doc) == Unmarshal(doc, EmptyMap).err

\* C13 (the claim as stated): when the checkpoint that loadState reads is
\* malformed, Start succeeds and the map is empty after loading.
C13_MalformedIsAbsence ==
    [][(hostPc = "new" /\ hostPc' = "running" /\ Malformed(store)
        /\ HasCheckpoint(storageClient')) =>
           MapLen(aggregations') = 0]_vars

\* C14: a flush whose checkpoint write failed goes on as after a successful
\* write: no step of it changes the map, with a non-empty map it builds the
\* batch of the map's values, and its next step is the call of the sink.
C14_WriteFailureNotFatal ==
    [][\A s \in FlushSlots :
          /\ FlushStep(s) => aggregations' = aggregations
          /\ (FlushStep(s) /\ flushPc[s] = "check" /\ saved[s].status = "failed"
              /\ MapLen(aggregations) > 0) =>
                 /\ flushPc'[s] = "send"
                 /\ md'[s] = BuildBatch(aggregations)
                 /\ saved'[s] = saved[s]
          /\ (FlushStep(s) /\ flushPc[s] = "send" /\ saved[s].status = "failed") =>
                 /\ sinkCalls' = sinkCalls + 1
                 /\ flushPc'[s] = "idle"]_vars

\* C14 witness: a flush whose file write failed and left the file truncated
\* has built its batch and is at its send
C14_Witness ==
    \E s \in FlushSlots :
        /\ flushPc[s] = "send"
        /\ saved[s].status = "failed"
        /\ store = Invalid
        /\ md[s] = BuildBatch(aggregations)
        /\ applied["manual"] > 0

\* the storage extension that the configuration names cannot be used
BadStorage == config.storageID \in {"missing", "notStorage", "clientErr"}

\* C15: Start fails exactly when the configured storage extension is
\* missing, is no storage extension or hands out no client; a failed Start
\* has read no checkpoint into the map, holds no client, has not started
\* flushLoop, and no flush and no call of the sink follows it.
C15_ConfigErrorFailsStart ==
    /\ [][(hostPc = "new" /\ hostPc' # "new") =>
              /\ BadStorage <=> hostPc' = "start_failed"
              /\ ~BadStorage <=> hostPc' = "running"
              /\ BadStorage => /\ aggregations' = aggregations
                               /\ loopPc' = loopPc
                               /\ storageClient' = storageClient]_vars
    /\ [](hostPc = "start_failed" =>
              /\ BadStorage
              /\ aggregations = EmptyMap
              /\ storageClient = "nil"
              /\ loopPc = "none"
              /\ ~tickPending
              /\ \A s \in FlushSlots : flushPc[s] = "idle"
              /\ sinkCalls = 0)

\* C15 witness: Start has failed for a missing extension while the
\* checkpoint file holds a valid checkpoint, and a ticker period has passed
C15_Witness ==
    /\ hostPc = "start_failed"
    /\ config.storageID = "missing"
    /\ store = ValidDoc
    /\ nTicks = 1
    /\ aggregations = EmptyMap

\* C16 (the claim as stated): within one process run no step lowers the
\* accumulated value of any group key.
C16_ValuesNeverDecrease ==
    [][SameRun => \A k \in Strings :
                      Get(aggregations', k) >= Get(aggregations, k)]_vars

\* C17: the batch that a flush hands to the sink has exactly one data point
\* for every key that the map had when the batch was built and none for any
\* other key; the data point carries the key as its work.type, the key's
\* value, cumulative temporality, and no attribute but work.type.
C17_OnePointPerGroup ==
    /\ [](\A s \in FlushSlots : flushPc[s] = "send" =>
              /\ {dp.workType : dp \in md[s]} = DOMAIN saved[s].agg.m
              /\ Cardinality(md[s]) = MapLen(saved[s].agg)
              /\ \A dp \in md[s] :
                     /\ dp.value = saved[s].agg.m[dp.workType]
                     /\ dp.temporality = "cumulative"
                     /\ dp.attrs = {"work.type"}
                     /\ dp.workType \notin {"id1", "id2", "id3", "id4", "id5"})
    /\ [][\A s \in FlushSlots :
              (FlushStep(s) /\ flushPc'[s] = "send") =>
                  /\ saved[s].agg = aggregations
                  /\ {dp.workType : dp \in md'[s]} = DOMAIN aggregations.m]_vars

\* C17 witness: a flush is at its send with a batch of two data points, one
\* per group, after calls for both groups
C17_Witness ==
    \E s \in FlushSlots :
        /\ flushPc[s] = "send"
        /\ Cardinality(md[s]) = 2
        /\ applied["manual"] = 1
        /\ applied["auto"] = -1

(* ------------------------ claims of the breaker ------------------------ *)
\* the step in which caller c begins an Execute call
BeginStep(c) == nCalls' # nCalls /\ NextCaller(c)

\* the step in which the unit of work of caller c returns
EndStep(c) == callPc[c] = "work" /\ callPc'[c] = "idle"

C19_HalfOpenAdmission ==
    /\ [](cb.state = "halfOpen" =>
              /\ hoAdmitted <= St.maxRequests
              /\ hoAdmitted = cb.counts.requests)
    /\ [][\A c \in Callers :
              /\ (BeginStep(c) /\ cb.state = "open" /\ cb'.state = "halfOpen") =>
                     /\ callPc'[c] = "work"
                     /\ hoAdmitted' = 1
              /\ (BeginStep(c) /\ cb.state = "halfOpen") =>
                     IF hoAdmitted >= St.maxRequests
                     THEN /\ callResult'[c] = "ErrTooManyRequests"
                          /\ callPc'[c] = "idle"
                          /\ hoAdmitted' = hoAdmitted
                          /\ cb' = cb
                     ELSE /\ callPc'[c] = "work"
                          /\ hoAdmitted' = hoAdmitted + 1
              /\ (BeginStep(c) /\ cb.state = "halfOpen" /\ cbConfig.maxRequests \in {0, 1}
                  /\ \E o \in Callers : callPc[o] = "work" /\ callGen[o] = cb.generation) =>
                     callResult'[c] = "ErrTooManyRequests"]_vars

\* C19 witness: with max_requests not set, one call is in its unit of work in
\* the half-open state and a second, concurrent call was rejected
C19_Witness ==
    /\ cbConfig.maxRequests = 0
    /\ cb.state = "halfOpen"
    /\ hoAdmitted = 1
    /\ \E c, o \in Callers :
           /\ callPc[c] = "work" /\ callGen[c] = cb.generation
           /\ callPc[o] = "idle" /\ callResult[o] = "ErrTooManyRequests"

\* the open timeout in force: Config.Timeout, or 60 seconds when it is 0
OpenTimeout == IF cbConfig.timeout = 0 THEN DefaultTimeout ELSE cbConfig.timeout

HalfOpenMax ==
    IF cbConfig.maxRequests = 0 THEN DefaultMaxRequests ELSE cbConfig.maxRequests

C22_AdmittedAfterTimeout ==
    /\ [][\A c \in Callers :
              /\ (BeginStep(c) /\ cb.state = "open" /\ cbNow > openedAt + OpenTimeout) =>
                     /\ cb'.state = "halfOpen"
                     /\ cb'.generation = cb.generation + 1
                     /\ callPc'[c] = "work"
                     /\ callGen'[c] = cb'.generation
                     /\ hoAdmitted' = 1
              /\ (BeginStep(c) /\ cb.state = "halfOpen" /\ hoAdmitted = 0) =>
                     /\ cb'.state = "halfOpen"
                     /\ callPc'[c] = "work"
                     /\ callGen'[c] = cb.generation
                     /\ hoAdmitted' = 1]_vars
    /\ [][(cb.state = "open" /\ cb'.state = "halfOpen") =>
              cbNow > openedAt + OpenTimeout]_vars
    /\ [](cb.state = "halfOpen" =>
              /\ hoAdmitted <= HalfOpenMax
              /\ cbNow > openedAt + OpenTimeout
              /\ Cardinality({c \in Callers : /\ callPc[c] = "work"
                                             /\ callGen[c] = cb.generation})
                     <= HalfOpenMax)

\* C22 witness: with timeout not set, a call made when more than 60 seconds
\* had passed since the breaker opened is in its unit of work and the breaker
\* is half-open
C22_Witness ==
    /\ cbConfig.timeout = 0
    /\ cb.state = "halfOpen"
    /\ cbNow > openedAt + DefaultTimeout
    /\ hoAdmitted = 1
    /\ \E c \in Callers : callPc[c] = "work" /\ callGen[c] = cb.generation

(* ---------------------- claims of the call guards ---------------------- *)
\* the outcome of an ending call is recorded: the breaker is closed, its
\* window has not ended and the call was admitted in its generation
Recorded(c) == cb.state = "closed" /\ ~WindowEnded /\ callGen[c] = cb.generation

\* C23: a call through RoundTrip that was admitted is a failure for the
\* breaker exactly when the transport returned an error or a response with
\* a status code of 500 or above; RoundTrip then returns an error that is
\* not the rejection error; a response with a status code below 500 is a
\* success and is returned to the caller as the transport returned it.  A
\* failure that is recorded adds one to the failures in a row or opens the
\* breaker, a success that is recorded clears them.
C23_HttpClassification ==
    /\ [](\A c \in Callers :
              (callGuard[c] = "http" /\ callResult[c] \in {"ok", "err"}) =>
                  /\ callResult[c] = "err" <=>
                         \/ callOutcome[c].err # NoErr
                         \/ callOutcome[c].val.status >= ServerErrorStatus
                  /\ callResult[c] = "ok" =>
                         /\ callOutcome[c].val.kind = "resp"
                         /\ callOutcome[c].val.status < ServerErrorStatus
                         /\ callRet[c] = Ret(callOutcome[c].val, NoErr)
                  /\ callResult[c] = "err" =>
                         /\ callRet[c].val = NoVal
                         /\ callRet[c].err # NoErr
                         /\ ~ErrorsIs(callRet[c].err, ErrCircuitBreakerOpen))
    /\ [][\A c \in Callers :
              (EndStep(c) /\ callGuard[c] = "http" /\ Recorded(c)) =>
                  IF callOutcome'[c].err # NoErr \/ callOutcome'[c].val.status >= ServerErrorStatus
                  THEN \/ cb'.state = "open"
                       \/ /\ cb'.state = "closed"
                          /\ cb'.counts.consecutiveFailures =
                                 cb.counts.consecutiveFailures + 1
                          /\ cb'.counts.totalFailures = cb.counts.totalFailures + 1
                  ELSE /\ cb'.state = "closed"
                       /\ cb'.counts.consecutiveFailures = 0
                       /\ cb'.counts.totalFailures = cb.counts.totalFailures
                       /\ cb'.counts.totalSuccesses = cb.counts.totalSuccesses + 1]_vars

\* C23 witness: responses with status 503 have opened the breaker, and a
\* response with status 404 was returned to the other caller as it was
C23_Witness ==
    /\ cb.state = "open"
    /\ \E c, o \in Callers :
           /\ callGuard[c] = "http"
           /\ callOutcome[c] = Ret(Resp(503), NoErr)
           /\ callResult[c] = "err"
           /\ callGuard[o] = "http"
           /\ callResult[o] = "ok"
           /\ callRet[o] = Ret(Resp(404), NoErr)

\* the last call of caller c was rejected by the breaker
Rejected(c) == callResult[c] \in {"ErrOpenState", "ErrTooManyRequests"}

\* C24 (the claim as stated): the error that a call guard returns for a call
\* that the breaker rejected is none of the errors that the wrapped
\* transport of that guard can return.
C24_RejectionDistinct ==
    \A c \in Callers :
        (Rejected(c) /\ callGuard[c] \in Guards) =>
            /\ callRet[c].err # NoErr
            /\ callRet[c].err \notin TransportErrors(callGuard[c])

\* the step in which caller c's consumption of its stream ends
RecvStep(c) == stream[c] = "open" /\ stream'[c] \in {"failed", "done"}

\* C25: a call through streamInterceptor is recorded once, when the streamer
\* returns: as a success when the streamer's error is nil, as a failure
\* otherwise; a caller holds a stream only after that success; and the end
\* of the stream's consumption, by an error or not, changes nothing of the
\* breaker.
C25_StreamEstablishmentOnly ==
    /\ [][\A c \in Callers : RecvStep(c) => cb' = cb]_vars
    /\ [][\A c \in Callers :
              (EndStep(c) /\ callGuard[c] = "stream") =>
                  /\ callResult'[c] = "ok" <=> callOutcome'[c].err = NoErr
                  /\ Recorded(c) =>
                         \/ cb'.state = "open" /\ callResult'[c] = "err"
                         \/ /\ cb'.state = "closed"
                            /\ cb'.counts.totalSuccesses + cb'.counts.totalFailures =
                                   cb.counts.totalSuccesses + cb.counts.totalFailures + 1
                            /\ cb'.counts.requests = cb.counts.requests]_vars
    /\ [](\A c \in Callers :
              stream[c] # "none" =>
                  /\ callGuard[c] = "stream"
                  /\ callPc[c] = "idle"
                  /\ callResult[c] = "ok"
                  /\ callRet[c] = Ret(ClientStream, NoErr)
                  /\ callOutcome[c] = callRet[c])

\* C25 witness: the streams of both callers have ended with an error, and
\* the breaker is closed with two successes and no failure counted
C25_Witness ==
    /\ \A c \in Callers : stream[c] = "failed"
    /\ cb.state = "closed"
    /\ cb.counts.totalSuccesses = 2
    /\ cb.counts.totalFailures = 0
    /\ cb.counts.consecutiveFailures = 0

PointStep(t) ==
    /\ SameRun
    /\ ingestPc[t] = "loop"
    /\ ingestIdx'[t] # ingestIdx[t] \/ ingestPc'[t] # ingestPc[t]

\* C26: the step of a ConsumeMetrics call over a data point that has no
\* work.type, or that belongs to a metric that is not a Sum, leaves the map
\* as it is; the step over a data point of a Sum metric with a work.type
\* adds the point's value to the entry of that work.type and changes no other
\* entry; taking the lock changes nothing.
C26_OnlyLabelledSumsCount ==
    [][\A t \in Threads :
          /\ PointStep(t) =>
                 LET dp == ingestBatch[t][ingestIdx[t]]
                 IN  IF dp.mtype = "sum" /\ dp.hasType
                     THEN aggregations' =
                              [aggregations EXCEPT
                                  !.m = Put(@, dp.workType,
                                            Get(aggregations, dp.workType) + dp.val)]
                     ELSE aggregations' = aggregations
          /\ (SameRun /\ ingestPc[t] = "idle" /\ ingestPc'[t] = "loop") =>
                 aggregations' = aggregations]_vars

\* C26 witness: the calls with the batches <<P4, P3>> and <<P3, P5>> have
\* returned, and the map's only entry is auto = -2
C26_Witness ==
    /\ AllIdle
    /\ nIngests = 2
    /\ base = EmptyMap
    /\ \E t \in Threads : ingestResult[t] = "nil"
    /\ aggregations = [isNil |-> FALSE, m |-> Put(EmptyFn, "auto", -2)]

\* C27 (the claim as stated): after Shutdown has returned and its checkpoint
\* write has succeeded, the stored checkpoint holds, for every group key,
\* what loadState restored plus the sum of the completed ConsumeMetrics
\* calls.
C27_ShutdownCheckpointComplete ==
    (hostPc = "stopped" /\ sdWrite = "ok") =>
        \A k \in Strings :
            Get([isNil |-> FALSE, m |-> StoredValues(store)], k) = Get(base, k) + applied[k]

\* C29 (the claim as stated): no step, of any run, removes a key from the
\* stored checkpoint or lowers the value stored for a key.
C29_CheckpointNeverShrinks ==
    [][\A k \in DOMAIN StoredValues(store) :
          /\ k \in DOMAIN StoredValues(store')
          /\ StoredValues(store')[k] >= StoredValues(store)[k]]_vars

\* the step in which flush activation s runs saveStateLocked
FlushSaveStep(s) == SameRun /\ flushPc[s] = "lock" /\ flushPc'[s] = "check"

\* C30 (the claim as stated): no flush runs saveStateLocked, which calls
\* storageClient.Set whenever the client is not nil, after Shutdown has
\* closed the storage client.
C30_NoSetAfterClose ==
    [][\A s \in FlushSlots : FlushSaveStep(s) => storageClient # "closed"]_vars

\* C31 (the claim as stated): after loadState, whatever the checkpoint held
\* (nothing, malformed text, an empty object or null), p.aggregations is a
\* map that can be assigned to, so no ConsumeMetrics call ends in a panic.
C31_MapUsableAfterLoad ==
    /\ Alive => ~aggregations.isNil
    /\ hostPc # "dead"

\* C32: while a flush is at its downstream send it does not hold p.mu: the
\* lock is free or held by a ConsumeMetrics call that is adding its data
\* points, and the map is one that such a call can assign to, so ingest
\* calls and Shutdown's saveState take the lock and complete while the send
\* is blocked.
C32_SendWithoutLock ==
    \A s \in FlushSlots :
        flushPc[s] = "send" =>
            /\ mu \notin FlushSlots
            /\ mu # Free => (mu \in Threads /\ ingestPc[mu] = "loop")
            /\ ~aggregations.isNil
            /\ hostPc # "dead"

\* C32 witness: a send is still blocked after a ConsumeMetrics call that
\* began after the batch was built has returned, and after Shutdown's
\* saveState that followed it has written the checkpoint
C32_Witness ==
    \E s \in FlushSlots :
        /\ flushPc[s] = "send"
        /\ \E t \in Threads : ingestResult[t] = "nil"
        /\ \E pt \in md[s] : aggregations.m[pt.workType] # pt.value
        /\ AllIdle
        /\ hostPc = "sd_close"
        /\ sdWrite = "ok"
        /\ store = Marshal(aggregations)

(* ------------------- the processor under fair scheduling ---------------- *)
\* The ticker fires again after the periods that the model's clock counts:
\* a tick is put into ticker.C when none is waiting.  The clock stays at its
\* last counted value.
TickerFire ==
    /\ ~(nTicks < MaxTicks /\ EventsLeft)
    /\ loopPc \in {"select", "flush"}
    /\ hostPc # "dead"
    /\ ~tickPending
    /\ tickPending' = TRUE
    /\ UNCHANGED <<hostPc, storageClient, aggregations, done, mu, loopPc>>
    /\ UNCHANGED <<ingestVars, flushVars, sinkVars, ghostVars, envVars, store, persisted>>
    /\ UNCHANGED <<sdWrite, cbVars>>

\* the steps of a processor that is started and of which Shutdown is not
\* called; the process is not restarted
NextLive ==
    \/ \E readErr \in BOOLEAN : Start(readErr)
    \/ Tick
    \/ TickerFire
    \/ \E t \in Threads, b \in Batches : IngestLock(t, b)
    \/ \E t \in Threads : IngestPoint(t)
    \/ \E s \in FlushSlots : LoopTick(s)
    \/ \E s \in FlushSlots, out \in {"ok", "failed", "partial", "skipped"} : FlushSave(s, out)
    \/ \E s \in FlushSlots : FlushBuild(s)
    \/ \E s \in FlushSlots, err \in BOOLEAN : FlushSend(s, err)

\* a step of the flushLoop goroutine up to the downstream send: it takes a
\* tick, takes p.mu and writes the checkpoint, or builds the batch
FlushLoopStep ==
    \/ \E s \in FlushSlots : LoopTick(s)
    \/ \E s \in FlushSlots, out \in {"ok", "failed", "partial", "skipped"} : FlushSave(s, out)
    \/ \E s \in FlushSlots : FlushBuild(s)

\* What the scheduling guarantees: the timer keeps firing, the flushLoop
\* goroutine and the goroutines inside ConsumeMetrics keep running (the
\* checkpoint write returns, p.mu is handed to a waiting flush once it is
\* released), and every downstream send returns.  Nothing forces a call of
\* ConsumeMetrics or Start.
Fairness ==
    /\ WF_vars(Tick \/ TickerFire)
    /\ WF_vars(\E t \in Threads : IngestPoint(t))
    /\ WF_vars(FlushLoopStep)
    /\ WF_vars(\E s \in FlushSlots, err \in BOOLEAN : FlushSend(s, err))

\* The fair specification starts without a checkpoint target or with a
\* checkpoint file, which has every outcome of a write; the file is absent
\* or holds a group, so that the map is empty or not after loadState.
InitLive ==
    /\ Init
    /\ config \in {Cfg(FALSE, "nil"), Cfg(TRUE, "nil")}
    /\ store \in {Absent, ValidDoc}

SpecLive == InitLive /\ [][NextLive]_vars /\ Fairness

\* the number of ConsumeMetrics calls that have returned
Completed == nIngests - Cardinality({t \in Threads : ingestPc[t] = "loop"})

\* a batch that carries the value of every group, with the increments of at
\* least n returned ConsumeMetrics calls in it, is in the hands of the sink
IncludesCalls(n) ==
    /\ Completed >= n
    /\ mu \notin Threads
    /\ \E s \in FlushSlots : flushPc[s] = "send" /\ md[s] = BuildBatch(aggregations)

\* C33: while the processor is started and not shut down, the ticker keeps
\* firing and every downstream send returns, the increments of every
\* ConsumeMetrics call that has returned are eventually part of the values
\* of a batch that flush hands to the sink.
C33_EveryIncrementEmitted ==
    \A n \in 1..MaxIngests :
        (hostPc = "running" /\ Completed >= n) ~> IncludesCalls(n)

\* C33 witness: after a first batch was sent, a second ConsumeMetrics call
\* has returned and a batch with its increments is at the sink, the
\* processor still running
C33_Witness ==
    /\ hostPc = "running"
    /\ sinkCalls >= 1
    /\ IncludesCalls(2)
    /\ \E k \in DOMAIN applied : applied[k] # 0

====
